---------------------------- MODULE Spec2Model ----------------------------
(***************************************************************************)
(* Framework adapters of bentoml: PyTorchModel and PyTorchLightningModel   *)
(* (src/bentoml/pytorch.py) save a model handle into a directory and load  *)
(* it back; the spaCy adapter and the model store are exercised by         *)
(* src/tests/integration/frameworks/spacy/test_spacy_impl.py.              *)
(*                                                                         *)
(* A file is a sequence of tokens, one token per format element:           *)
(*   "PK34"  zip local file header   "PK12"  zip central directory         *)
(*   "PK56"  zip end-of-central-directory record (what is_zipfile seeks)   *)
(*   "PROTO" pickle protocol opcode  "STOP"  pickle stop opcode            *)
(*   "G_torch" / "G_user"  pickle GLOBAL opcodes naming a class by module  *)
(*   "w"     an ordinary byte of the model's parameters                    *)
(* A model's parameters are arbitrary bytes, so they may hold "PK56".      *)
(***************************************************************************)
EXTENDS Naturals, Sequences, FiniteSets

\* ---- bounds ----
MaxData == 1
MaxCut == 1
MaxOpen == 1
MaxTags == 2

VARIABLES env, disk, openHandles, res, store, installed, sres

vars == <<env, disk, openHandles, res, store, installed, sres>>

\* ---- the artifact directory ----
MODEL_NAMESPACE == "model"
PT_EXTENSION == ".pt"
YAML_EXTENSION == ".yaml"

\* PyTorchModel.__get_weight_fpath: os.path.join(path, MODEL_NAMESPACE + PT_EXTENSION)
get_weight_fpath == <<MODEL_NAMESPACE, PT_EXTENSION>>

\* (variant: the join made with the descriptor's extension)
pl_get_weight_fpath_yaml == <<MODEL_NAMESPACE, YAML_EXTENSION>>

\* PyTorchLightningModel.__get_weight_fpath: the same join, as a str
pl_get_weight_fpath == <<MODEL_NAMESPACE, PT_EXTENSION>>

\* the registry's metadata descriptor, a sibling of the artifact
metadata_fpath == <<MODEL_NAMESPACE, YAML_EXTENSION>>

FileNames == {<<MODEL_NAMESPACE, PT_EXTENSION>>, <<MODEL_NAMESPACE, YAML_EXTENSION>>}

NoFile == [exists |-> FALSE, bytes |-> <<>>]
File(b) == [exists |-> TRUE, bytes |-> b]

\* ---- model handles ----
DataBytes == {"w", "PK56"}

RECURSIVE SeqsUpTo(_, _)
SeqsUpTo(S, n) ==
  IF n = 0 THEN {<<>>}
  ELSE LET shorter == SeqsUpTo(S, n - 1)
       IN shorter \cup {Append(s, x) : s \in {t \in shorter : Len(t) = n - 1}, x \in S}

Data == SeqsUpTo(DataBytes, MaxData) \ {<<>>}

NoModel == [kind |-> "none", data |-> <<>>, cls |-> "none", serializable |-> FALSE]

\* torch.jit.ScriptModule: self-describing, no class definition needed
ScriptModules == [kind : {"script"}, data : Data, cls : {"torch"}, serializable : {TRUE}]
\* a generic torch.nn.Module: its class lives in a user module ("user") or is
\* pickled by value ("torch" is then the only module its pickle names);
\* serializable = FALSE: its object graph holds something the pickler rejects
Modules == [kind : {"module"}, data : Data, cls : {"torch", "user"}, serializable : BOOLEAN]
\* pytorch_lightning.LightningModule; serializable = FALSE: to_torchscript fails
LightningModules == [kind : {"lightning"}, data : Data, cls : {"user"}, serializable : BOOLEAN]

\* LightningModule.to_torchscript(): the compiled form of the model
to_torchscript(m) == [kind |-> "script", data |-> m.data, cls |-> "torch", serializable |-> TRUE]

\* the model's output on the fixed input: decided by its parameters
Output(m) == m.data

\* ---- environments (what the running process can import) ----
Envs == {e \in [torch : BOOLEAN, pl : BOOLEAN, usermod : BOOLEAN] : e.pl => e.torch}

Faults == [io : {"ok", "open", "write"}, at : 0..MaxCut]

\* ---- results of a call ----
Idle == [op |-> "none", adapter |-> "none", arg |-> NoModel, exc |-> "none",
         msg |-> "", ret |-> NoModel, strategy |-> "none"]

\* what a method body hands to its caller: the exception it ends with ("none":
\* a normal return), the value returned, the serializer or loader it went
\* through, the directory as it leaves it, and whether a file object it opened
\* is still referenced (so still open) when it ends
Outcome(exc, msg, ret, strategy, d, leak) ==
  [exc |-> exc, msg |-> msg, ret |-> ret, strategy |-> strategy, disk |-> d, leak |-> leak]

\* _torch_exc / _pl_exc: IMPORT_ERROR_MSG with the framework's installation hint
torch_exc == "pytorch: https://pytorch.org/get-started/locally/"
pl_exc == "pytorch_lightning: pip install pytorch_lightning"

\* torch = LazyLoader("torch", ...), nn = LazyLoader("nn", ..., "torch.nn"):
\* the import runs on first attribute access and raises ModuleNotFoundError
\* when the module is not installed
LazyLoader(e, name) ==
  CASE name = "torch" -> e.torch
    [] name = "torch.nn" -> e.torch
    [] name = "pytorch_lightning" -> e.pl
    [] OTHER -> FALSE

\* @catch_exceptions(catch_exc=ModuleNotFoundError,
\*                   throw_exc=MissingDependencyException, msg=...)
catch_exceptions(o, msg) ==
  IF o.exc = "ModuleNotFoundError"
  THEN [o EXCEPT !.exc = "MissingDependencyException", !.msg = msg]
  ELSE o

\* ---- the two serializers ----
\* torch.jit.save: a zip archive; the end-of-central-directory record is last
jit_bytes(m) == <<"PK34">> \o m.data \o <<"PK12", "PK56">>

\* cloudpickle.dump: a pickle stream naming the model's class by module
cloudpickle_bytes(m) ==
  <<"PROTO", IF m.cls = "user" THEN "G_user" ELSE "G_torch">> \o m.data \o <<"STOP">>

\* what is on disk when a write stops after k tokens (never the whole stream)
Cut(s, k) == SubSeq(s, 1, IF k < Len(s) THEN k ELSE Len(s) - 1)

\* zipfile.is_zipfile: TRUE iff an end-of-central-directory record is found
\* searching back from the end of the file; FALSE for a file it cannot open
is_zipfile(f) == f.exists /\ \E i \in 1..Len(f.bytes) : f.bytes[i] = "PK56"

\* torch.jit.save(m, fpath): writes the archive itself
torch_jit_save(m, fpath, fault, d) ==
  CASE fault.io = "open" -> Outcome("OSError", "", NoModel, "jit", d, FALSE)
    [] fault.io = "write" ->
         Outcome("OSError", "", NoModel, "jit",
                 [d EXCEPT ![fpath] = File(Cut(jit_bytes(m), fault.at))], FALSE)
    [] OTHER ->
         Outcome("none", "", NoModel, "jit", [d EXCEPT ![fpath] = File(jit_bytes(m))], FALSE)

\* torch.jit.load(fpath)
torch_jit_load(fpath, d) ==
  LET f == d[fpath]
      b == f.bytes
      n == Len(b)
  IN IF ~f.exists THEN Outcome("ValueError", "", NoModel, "jit", d, FALSE)
     ELSE IF n >= 3 /\ b[1] = "PK34" /\ b[n - 1] = "PK12" /\ b[n] = "PK56"
     THEN Outcome("none", "",
                  [kind |-> "script", data |-> SubSeq(b, 2, n - 2), cls |-> "torch",
                   serializable |-> TRUE],
                  "jit", d, FALSE)
     ELSE Outcome("RuntimeError", "", NoModel, "jit", d, FALSE)

\* cloudpickle.dump(m, open(fpath, "wb")): open truncates the file; nothing
\* closes the file object but its last reference going away. On a normal
\* return that is the end of the call. The file object is an argument of the
\* Python function cloudpickle.dump, so when dump raises, its frame in the
\* traceback keeps the file object referenced, and open
cloudpickle_dump(m, fpath, fault, d) ==
  CASE fault.io = "open" -> Outcome("OSError", "", NoModel, "cloudpickle", d, FALSE)
    [] fault.io # "open" /\ ~m.serializable ->
         Outcome("PicklingError", "", NoModel, "cloudpickle",
                 [d EXCEPT ![fpath] = File(Cut(cloudpickle_bytes(m), fault.at))], TRUE)
    [] fault.io = "write" /\ m.serializable ->
         Outcome("OSError", "", NoModel, "cloudpickle",
                 [d EXCEPT ![fpath] = File(Cut(cloudpickle_bytes(m), fault.at))], TRUE)
    [] OTHER ->
         Outcome("none", "", NoModel, "cloudpickle",
                 [d EXCEPT ![fpath] = File(cloudpickle_bytes(m))], FALSE)

\* cloudpickle.load(open(fpath, "rb")): the unpickler reads the opcodes in
\* order, importing the module of each GLOBAL as it meets it. cloudpickle.load
\* is pickle.load, which has no Python frame: the file object is a temporary of
\* the caller, dropped (and closed by reference counting) as the call ends
cloudpickle_load(e, fpath, d) ==
  LET f == d[fpath]
      b == f.bytes
      n == Len(b)
      Raise(x, msg) == Outcome(x, msg, NoModel, "cloudpickle", d, FALSE)
  IN CASE ~f.exists -> Raise("FileNotFoundError", "")
       [] f.exists /\ n = 0 -> Raise("EOFError", "")
       [] f.exists /\ n > 0 /\ b[1] # "PROTO" -> Raise("UnpicklingError", "")
       [] f.exists /\ n = 1 /\ b[1] = "PROTO" -> Raise("EOFError", "")
       [] f.exists /\ n > 1 /\ b[1] = "PROTO" ->
            IF b[2] \notin {"G_torch", "G_user"} THEN Raise("UnpicklingError", "")
            ELSE IF b[2] = "G_user" /\ ~e.usermod THEN Raise("ModuleNotFoundError", "user")
            ELSE IF ~e.torch THEN Raise("ModuleNotFoundError", "torch")
            ELSE IF b[n] # "STOP" \/ n < 3 THEN Raise("EOFError", "")
            ELSE Outcome("none", "",
                         [kind |-> "module", data |-> SubSeq(b, 3, n - 1),
                          cls |-> IF b[2] = "G_user" THEN "user" ELSE "torch",
                          serializable |-> TRUE],
                         "cloudpickle", d, FALSE)

\* ---- PyTorchModel ----
\* PyTorchModel.load, the body under the decorator
PyTorchModel_load_body(e, d) ==
  IF is_zipfile(d[get_weight_fpath])
  THEN IF ~LazyLoader(e, "torch")
       THEN Outcome("ModuleNotFoundError", "torch", NoModel, "jit", d, FALSE)
       ELSE torch_jit_load(get_weight_fpath, d)
  ELSE cloudpickle_load(e, get_weight_fpath, d)

PyTorchModel_load(e, d) == catch_exceptions(PyTorchModel_load_body(e, d), torch_exc)

\* (variant: save without the isinstance test, pickling every model)
PyTorchModel_save_body_pickle_only(e, m, fault, d) ==
  IF ~LazyLoader(e, "torch")
  THEN Outcome("ModuleNotFoundError", "torch", NoModel, "none", d, FALSE)
  ELSE cloudpickle_dump(m, get_weight_fpath, fault, d)

\* PyTorchModel.save, the body under the decorator
PyTorchModel_save_body(e, m, fault, d) ==
  IF ~LazyLoader(e, "torch")
  THEN Outcome("ModuleNotFoundError", "torch", NoModel, "none", d, FALSE)
  ELSE IF m.kind = "script"
  THEN torch_jit_save(m, get_weight_fpath, fault, d)
  ELSE cloudpickle_dump(m, get_weight_fpath, fault, d)

PyTorchModel_save(e, m, fault, d) ==
  catch_exceptions(PyTorchModel_save_body(e, m, fault, d), torch_exc)

\* ---- PyTorchLightningModel ----
\* PyTorchLightningModel.load, the body under the decorator
PyTorchLightningModel_load_body(e, d) ==
  IF ~LazyLoader(e, "torch")
  THEN Outcome("ModuleNotFoundError", "torch", NoModel, "jit", d, FALSE)
  ELSE torch_jit_load(pl_get_weight_fpath, d)

PyTorchLightningModel_load(e, d) ==
  catch_exceptions(PyTorchLightningModel_load_body(e, d), pl_exc)

\* PyTorchLightningModel.save, the body under the decorator: torch.jit.save is
\* looked up first, then the argument self._model.to_torchscript() is evaluated
PyTorchLightningModel_save_body(e, m, fault, d) ==
  IF ~LazyLoader(e, "torch")
  THEN Outcome("ModuleNotFoundError", "torch", NoModel, "none", d, FALSE)
  ELSE IF ~m.serializable
  THEN Outcome("RuntimeError", "", NoModel, "none", d, FALSE)
  ELSE torch_jit_save(to_torchscript(m), pl_get_weight_fpath, fault, d)

PyTorchLightningModel_save(e, m, fault, d) ==
  catch_exceptions(PyTorchLightningModel_save_body(e, m, fault, d), pl_exc)

\* ---- the state machine of the adapters ----
Result(op, adapter, m, o) ==
  [op |-> op, adapter |-> adapter, arg |-> m, exc |-> o.exc, msg |-> o.msg,
   ret |-> o.ret, strategy |-> o.strategy]

Finish(op, adapter, m, o) ==
  /\ o.leak => openHandles < MaxOpen
  /\ disk' = o.disk
  /\ openHandles' = IF o.leak THEN openHandles + 1 ELSE openHandles
  /\ res' = Result(op, adapter, m, o)
  /\ UNCHANGED <<env, store, installed, sres>>

\* a model handle exists only in a process that imported its framework and
\* its own class
Holds(e, m) ==
  /\ e.torch
  /\ m.kind = "lightning" => e.pl
  /\ m.cls = "user" => e.usermod

PTSave ==
  \E m \in ScriptModules \cup Modules, fault \in Faults :
    /\ Holds(env, m)
    /\ Finish("save", "PyTorchModel", m, PyTorchModel_save(env, m, fault, disk))

PTLoad == Finish("load", "PyTorchModel", NoModel, PyTorchModel_load(env, disk))

PLSave ==
  \E m \in LightningModules, fault \in Faults :
    /\ Holds(env, m)
    /\ Finish("save", "PyTorchLightningModel", m,
           PyTorchLightningModel_save(env, m, fault, disk))

PLLoad ==
  Finish("load", "PyTorchLightningModel", NoModel, PyTorchLightningModel_load(env, disk))

\* the caller lets go of the exception a failed call ended with: the traceback,
\* its frames and the file object they hold are collected, which closes the file
DropException ==
  /\ openHandles > 0
  /\ openHandles' = openHandles - 1
  /\ UNCHANGED <<env, disk, res, store, installed, sres>>

\* the directory is handed to another process (training, then serving), whose
\* environment may lack the framework or the model's class; the old process's
\* handles are closed by its exit
NewProcess ==
  /\ \E e \in Envs : env' = e
  /\ openHandles' = 0
  /\ res' = Idle
  /\ UNCHANGED <<disk, store, installed, sres>>

\* ---- the model store and the spaCy adapter ----
\* (bentoml.spacy and the ModelStore, as the integration tests use them)
Pipelines == {"en_core_web_sm", "en_core_web_md"}
Requirements == {"spacy-transformers", "spacy-lookups-data"}

NoEntry == [workflow |-> "none", requirements |-> {}, pipeline |-> "none"]
SIdle == [op |-> "none", tag |-> 0, exc |-> "none", ret |-> "none"]

Tags == 1..MaxTags
FreeTags == {t \in Tags : store[t] = NoEntry}

\* bentoml.spacy.save(name, model, model_store=...): a new entry whose
\* model.yaml lists no additional requirement
spacy_save(p) == [workflow |-> "save", requirements |-> {}, pipeline |-> p]

\* bentoml.spacy.projects("test", "clone", ...): a new entry holding a cloned
\* project directory (project.yml), no pipeline
spacy_projects == [workflow |-> "projects", requirements |-> {}, pipeline |-> "none"]

\* (variants: load without the requirement check; load without the workflow check)
spacy_load_unchecked(entry, inst) ==
  IF entry.workflow = "projects" THEN [exc |-> "BentoMLException", ret |-> "none"]
  ELSE [exc |-> "none", ret |-> entry.pipeline]
spacy_load_any(entry, inst) ==
  IF ~(entry.requirements \subseteq inst)
  THEN [exc |-> "MissingDependencyException", ret |-> "none"]
  ELSE [exc |-> "none", ret |-> entry.pipeline]

\* bentoml.spacy.load(tag, model_store=...)
spacy_load(entry, inst) ==
  IF entry.workflow = "projects" THEN [exc |-> "BentoMLException", ret |-> "none"]
  ELSE IF ~(entry.requirements \subseteq inst)
  THEN [exc |-> "MissingDependencyException", ret |-> "none"]
  ELSE [exc |-> "none", ret |-> entry.pipeline]

\* bentoml.spacy.load_project(tag, model_store=...): the project's path
spacy_load_project(entry) ==
  IF entry.workflow # "projects" THEN [exc |-> "BentoMLException", ret |-> "none"]
  ELSE [exc |-> "none", ret |-> "project_path"]

SpacySave ==
  /\ FreeTags # {}
  /\ \E p \in Pipelines :
       LET t == CHOOSE x \in FreeTags : \A y \in FreeTags : x <= y
       IN /\ store' = [store EXCEPT ![t] = spacy_save(p)]
          /\ sres' = [op |-> "save", tag |-> t, exc |-> "none", ret |-> "none"]
  /\ UNCHANGED <<installed, env, disk, openHandles, res>>

SpacyProjects ==
  /\ FreeTags # {}
  /\ LET t == CHOOSE x \in FreeTags : \A y \in FreeTags : x <= y
     IN /\ store' = [store EXCEPT ![t] = spacy_projects]
        /\ sres' = [op |-> "projects", tag |-> t, exc |-> "none", ret |-> "none"]
  /\ UNCHANGED <<installed, env, disk, openHandles, res>>

\* the descriptor model.yaml of an entry is rewritten with
\* options.additional_requirements set
EditRequirements(t) ==
  /\ store[t] # NoEntry
  /\ \E r \in SUBSET Requirements : store' = [store EXCEPT ![t].requirements = r]
  /\ UNCHANGED <<installed, sres, env, disk, openHandles, res>>

\* the loading environment: a package is installed or removed
Pip ==
  /\ \E r \in SUBSET Requirements : installed' = r
  /\ installed' # installed
  /\ UNCHANGED <<store, sres, env, disk, openHandles, res>>

SpacyLoad(t) ==
  /\ store[t] # NoEntry
  /\ LET o == spacy_load(store[t], installed)
     IN sres' = [op |-> "load", tag |-> t, exc |-> o.exc, ret |-> o.ret]
  /\ UNCHANGED <<store, installed, env, disk, openHandles, res>>

SpacyLoadProject(t) ==
  /\ store[t] # NoEntry
  /\ LET o == spacy_load_project(store[t])
     IN sres' = [op |-> "load_project", tag |-> t, exc |-> o.exc, ret |-> o.ret]
  /\ UNCHANGED <<store, installed, env, disk, openHandles, res>>

Init ==
  /\ env \in Envs
  /\ disk = [n \in FileNames |-> IF n = metadata_fpath THEN File(<<"yaml">>) ELSE NoFile]
  /\ openHandles = 0
  /\ res = Idle
  /\ store = [t \in Tags |-> NoEntry]
  /\ installed = {}
  /\ sres = SIdle

Next == PTSave \/ PTLoad \/ PLSave \/ PLLoad \/ DropException \/ NewProcess

Spec == Init /\ [][Next]_vars

StoreNext ==
  \/ SpacySave
  \/ SpacyProjects
  \/ Pip
  \/ \E t \in Tags : EditRequirements(t)
  \/ \E t \in Tags : SpacyLoad(t)
  \/ \E t \in Tags : SpacyLoadProject(t)

StoreInit == Init /\ env = [torch |-> TRUE, pl |-> TRUE, usermod |-> TRUE]

StoreSpec == StoreInit /\ [][StoreNext]_vars

\* ---- claims ----
weight_file == <<"model", ".pt">>
\* a step that ends a save (a load): res' is that call's result; the only other
\* step that leaves such a result in res is DropException
SaveStep == res'.op = "save" /\ ~DropException
LoadStep == res'.op = "load" /\ ~DropException
SavedOk == res.op = "save" /\ res.exc = "none"

\* C1: save(m, D) followed by load(D) by the same adapter returns a handle
\* whose output equals m's output (for the Lightning adapter, the output of m's
\* compiled form).
C1_RoundTrip ==
  [][/\ (PTLoad /\ SavedOk /\ res.adapter = "PyTorchModel")
          => (res'.exc = "none" /\ Output(res'.ret) = Output(res.arg))
     /\ (PLLoad /\ SavedOk /\ res.adapter = "PyTorchLightningModel")
          => (res'.exc = "none" /\ Output(res'.ret) = Output(to_torchscript(res.arg)))]_vars

\* the adapter's framework cannot be imported
FrameworkMissing(adapter, e) ==
  IF adapter = "PyTorchModel" THEN ~e.torch ELSE ~e.torch \/ ~e.pl

Hint(adapter) == IF adapter = "PyTorchModel" THEN torch_exc ELSE pl_exc

\* the directory holds an artifact the adapter's own save wrote in full
OwnArtifact(adapter, d) ==
  IF adapter = "PyTorchModel"
  THEN \E m \in ScriptModules \cup Modules :
         d[weight_file] = File(IF m.kind = "script" THEN jit_bytes(m) ELSE cloudpickle_bytes(m))
  ELSE \E m \in LightningModules : d[weight_file] = File(jit_bytes(to_torchscript(m)))

\* C2: whenever the adapter's framework (torch; torch and pytorch_lightning for
\* the Lightning adapter) cannot be imported, save and load end with
\* MissingDependencyException carrying the framework's installation hint.
C2_MissingDependencyTranslation ==
  (/\ res.op \in {"save", "load"}
   /\ FrameworkMissing(res.adapter, env)
   /\ res.op = "load" => OwnArtifact(res.adapter, disk))
    => (res.exc = "MissingDependencyException" /\ res.msg = Hint(res.adapter))

\* C3: PyTorchModel.load takes the archive path for an artifact torch.jit.save
\* wrote and the general-purpose loader for an artifact cloudpickle.dump wrote,
\* whatever the pickled model holds.
C3_DispatchCorrectness ==
  [][(PTLoad /\ SavedOk) => res'.strategy = res.strategy]_vars

\* C4: an exception that is not caused by the adapter's framework being absent
\* is not converted into MissingDependencyException.
C4_OtherFailuresPropagate ==
  res.exc = "MissingDependencyException" => FrameworkMissing(res.adapter, env)

\* C5: a save that ends with an exception leaves the directory as it was.
C5_SaveAllOrNothing ==
  [][(SaveStep /\ res'.exc # "none") => disk' = disk]_vars

\* C6: no file handle opened by save or load is still open when it ends,
\* normally or with an exception.
C6_HandlesReleased ==
  [][(SaveStep \/ LoadStep) => openHandles' = openHandles]_vars

\* C7: a save writes no file but model.pt, which exists after a successful
\* save by either adapter and for every model subtype; load writes nothing.
C7_SaveWritesOneFile ==
  [][/\ SaveStep => /\ \A n \in FileNames \ {weight_file} : disk'[n] = disk[n]
                    /\ res'.exc = "none" => /\ disk'[weight_file].exists
                                             /\ disk'[weight_file].bytes # <<>>
     /\ LoadStep => disk' = disk]_vars

C7_Witness ==
  /\ SavedOk
  /\ res.adapter = "PyTorchLightningModel"
  /\ disk[weight_file].exists
  /\ disk[metadata_fpath] = File(<<"yaml">>)

\* the serializer the adapter must choose for a model
Expected(adapter, m) ==
  IF adapter = "PyTorchModel" /\ m.kind # "script" THEN "cloudpickle" ELSE "jit"

ExpectedBytes(adapter, m) ==
  CASE adapter = "PyTorchLightningModel" -> jit_bytes(to_torchscript(m))
    [] adapter = "PyTorchModel" /\ m.kind = "script" -> jit_bytes(m)
    [] OTHER -> cloudpickle_bytes(m)

C8_DeclaredExtraRequirement ==
  [][\A t \in Tags :
       (SpacyLoad(t) /\ store[t].workflow = "save"
          /\ ~(store[t].requirements \subseteq installed))
         => (sres'.exc = "MissingDependencyException" /\ sres'.ret = "none")]_vars

C8_Witness ==
  /\ sres.op = "load"
  /\ sres.exc = "MissingDependencyException"
  /\ store[sres.tag].workflow = "save"
  /\ ~(store[sres.tag].requirements \subseteq installed)

\* C9: load_project on an entry created by save, and load on an entry created
\* by the project-clone workflow, raise BentoMLException and return nothing;
\* neither call changes the entry, and the matching call returns.
C9_WrongAdapterLoad ==
  [][\A t \in Tags :
       /\ (SpacyLoadProject(t) /\ store[t].workflow = "save")
            => (sres'.exc = "BentoMLException" /\ sres'.ret = "none" /\ store' = store)
       /\ (SpacyLoad(t) /\ store[t].workflow = "projects")
            => (sres'.exc = "BentoMLException" /\ sres'.ret = "none" /\ store' = store)
       /\ (SpacyLoadProject(t) /\ store[t].workflow = "projects")
            => (sres'.exc = "none" /\ sres'.ret = "project_path")
       /\ (SpacyLoad(t) /\ store[t].workflow = "save"
             /\ store[t].requirements \subseteq installed)
            => (sres'.exc = "none" /\ sres'.ret = store[t].pipeline)]_vars

C9_Witness ==
  /\ sres.op = "load"
  /\ sres.exc = "BentoMLException"
  /\ store[sres.tag].workflow = "projects"
=============================================================================
